---- MODULE Spec2Model ----
(***************************************************************************)
(* tailfs: bootstrap of smb.conf and supervision of the smbd subprocess.   *)
(* Model of src/tailfs/tailfs.go.  One caller thread per Server (running   *)
(* Start, or calling initSMBConfIfNecessary directly as the test does),    *)
(* the three goroutines start() spawns, the smbd process, and the          *)
(* filesystem the bootstrap works on.                                      *)
(***************************************************************************)
EXTENDS Integers, Sequences, FiniteSets, TLC

\* ---------------------------------------------------------------- bounds
MaxInitCalls == 2
NumPorts == 2
\* Bytes a pipe holds before a writer blocks.
MaxPipe == 1

\* Two Servers: the caller of Start and a second caller.
Servers == {1, 2}
Ports == 1..NumPorts
\* Opts.StateDir values the callers pass.
StateDirs == {<<"a">>, <<"b">>}
Streams == {"stdout", "stderr"}

\* ------------------------------------------------------- program constants
Perm0755 == 493

\* directorySettings(): Setting, path, perm; AbsolutePath is still unset.
directorySettings ==
  << [Setting |-> "state directory", AbsolutePath |-> <<>>, path |-> "", perm |-> Perm0755],
     [Setting |-> "log file", AbsolutePath |-> <<>>, path |-> "log", perm |-> Perm0755],
     [Setting |-> "pid directory", AbsolutePath |-> <<>>, path |-> "pid", perm |-> Perm0755],
     [Setting |-> "lock directory", AbsolutePath |-> <<>>, path |-> "private", perm |-> Perm0755],
     [Setting |-> "private dir", AbsolutePath |-> <<>>, path |-> "private", perm |-> Perm0755],
     [Setting |-> "binddns dir", AbsolutePath |-> <<>>, path |-> "bind-dns", perm |-> Perm0755],
     [Setting |-> "cache directory", AbsolutePath |-> <<>>, path |-> "cache", perm |-> Perm0755],
     [Setting |-> "ncalrpc dir", AbsolutePath |-> <<>>, path |-> "ncalrpc", perm |-> Perm0755],
     [Setting |-> "ntp signed socket directory", AbsolutePath |-> <<>>, path |-> "ntp_signd", perm |-> Perm0755],
     [Setting |-> "usershare path", AbsolutePath |-> <<>>, path |-> "usershares", perm |-> Perm0755],
     [Setting |-> "winbdd socket directory", AbsolutePath |-> <<>>, path |-> "winbindd", perm |-> Perm0755] >>

\* The fixed lines of smbConfTemplate that precede {{ range . }}.
smbConfHeader ==
  << [key |-> "[global]", val |-> <<>>],
     [key |-> "server role", val |-> <<"standalone server">>],
     [key |-> "interfaces", val |-> <<"127.0.0.1">>],
     [key |-> "registry shares", val |-> <<"no">>],
     [key |-> "config backend", val |-> <<"file">>],
     [key |-> "log level", val |-> <<"5">>] >>

\* smbConfTemplate executed on ds: the header, then for each element of
\* ds one line "{{ .Setting }} = {{ .AbsolutePath }}".
smbConfTemplate(ds) ==
  smbConfHeader \o [k \in 1..Len(ds) |-> [key |-> ds[k].Setting, val |-> ds[k].AbsolutePath]]

\* ------------------------------------------------------------ path helpers
\* filepath.Join(dir, p): empty elements are ignored.
Join(dir, p) == IF p = "" THEN dir ELSE Append(dir, p)

\* The path and all its ancestors below the root.
Prefixes(p) == {SubSeq(p, 1, k) : k \in 1..Len(p)}

Parent(p) == SubSeq(p, 1, Len(p) - 1)

\* ---------------------------------------------------------------- state
VARIABLES
  env,          \* fixed faults of the environment
  dirs,         \* filesystem: the directories that exist
  files,        \* filesystem: path -> content of the regular files
  pc,           \* caller thread position, per Server
  op,           \* what the caller of this Server runs: "Start" or "init"
  calls,        \* direct initSMBConfIfNecessary calls made so far
  stateDir,     \* s.opts.StateDir
  smbConfPath,  \* s.smbConfPath
  idx,          \* position of the range loop over ds
  ds,           \* the local ds of initSMBConfIfNecessary
  initErr,      \* what initSMBConfIfNecessary returned
  startErr,     \* what s.start() returned
  ret,          \* what Start returned: [srv, err]
  bootOk,       \* history: state dirs on which a bootstrap call returned nil
  sawOk,        \* history: the running call began after such a return
  listener,     \* the port the open listener l holds, 0 when none
  Port,         \* s.Port
  cmd,          \* s.cmd: [Process, ProcessState, --configfile, --port]
  rd,           \* read ends of the stdout/stderr pipes
  wr,           \* the parent's write ends of the pipes
  relay,        \* position of the two io.Copy goroutines
  loopPc,       \* position of the supervisor loop goroutine
  pipe,         \* bytes smbd has written into each pipe, not yet read
  live,         \* smbd processes of this Server that are running
  status        \* exit status of the process of s.cmd, not yet collected

fsVars == <<dirs, files>>
callVars == <<pc, op, calls, stateDir, smbConfPath, idx, ds, initErr, startErr, ret, bootOk, sawOk>>
netVars == <<listener, Port>>
supVars == <<cmd, rd, wr, relay, loopPc, live, status, pipe>>
vars == <<env, dirs, files, pc, op, calls, stateDir, smbConfPath, idx, ds, initErr,
          startErr, ret, bootOk, sawOk, listener, Port, cmd, rd, wr, relay, loopPc,
          live, status, pipe>>

\* ------------------------------------------------------------ filesystem
Exists(p) == p \in dirs \/ p \in DOMAIN files

\* Variant: the check never finds the file.
StatNeverFinds(p) == IF env.statFault THEN "other" ELSE "notexist"

\* os.Stat(p) as the code tells the outcomes apart: nil, IsNotExist, other.
Stat(p) ==
  IF env.statFault THEN "other"
  ELSE IF Exists(p) THEN "nil" ELSE "notexist"

\* os.MkdirAll(p, perm) fails when a regular file is in the way.
MkdirAllFails(p) == \E q \in Prefixes(p) : q \in DOMAIN files

MkdirAllDirs(p) == dirs \cup Prefixes(p)

\* os.OpenFile(p, O_CREATE|O_WRONLY, 0644) fails when the directory is
\* missing or refuses the creation, or p is a directory.
OpenFileFails(p) ==
  \/ env.createFault
  \/ (Parent(p) # <<>> /\ Parent(p) \notin dirs)
  \/ p \in dirs

\* No O_TRUNC: an existing file keeps its content.
OpenFileFiles(p) == IF p \in DOMAIN files THEN files ELSE (p :> <<>>) @@ files

\* A write at offset 0 of new over old.
Overwrite(old, new) ==
  IF Len(new) >= Len(old) THEN new ELSE new \o SubSeq(old, Len(new) + 1, Len(old))

\* How much of text a failing write may leave: nothing, the header, all
\* but the last line.
WritePrefixes(text) == {0, Len(smbConfHeader), Len(text) - 1}

\* The filesystems a run may start from, for state directory <<"a">>.
InitialFS ==
  { [d |-> {}, f |-> <<>>],
    [d |-> {<<"a">>}, f |-> <<>>],
    [d |-> {}, f |-> (<<"a">> :> <<>>)],
    [d |-> {<<"a">>}, f |-> (<<"a", "smb.conf">> :> <<>>)],
    [d |-> {<<"a">>}, f |-> (<<"a", "smb.conf">> :> <<[key |-> "junk", val |-> <<"x">>]>>)],
    [d |-> {<<"a">>}, f |-> (<<"a", "private">> :> <<>>)] }

Env == [statFault : BOOLEAN, createFault : BOOLEAN, writeFault : BOOLEAN]

NoRet == [srv |-> FALSE, err |-> "none"]

\* s.cmd before start() assigns it.
NoCmd == [Process |-> "nil", ProcessState |-> "nil", configfile |-> <<>>, port |-> 0]

\* What the callers run: one Start beside a direct bootstrap caller, or
\* two direct bootstrap callers.
Plans == {[s \in Servers |-> IF s = 1 THEN o ELSE "init"] : o \in {"Start", "init"}}

InitWith(plans, envs, fss) ==
  /\ env \in envs
  /\ \E fs \in fss : dirs = fs.d /\ files = fs.f
  /\ op \in plans
  /\ pc = [s \in Servers |-> "idle"]
  /\ calls = [s \in Servers |-> 0]
  /\ stateDir = [s \in Servers |-> <<>>]
  /\ smbConfPath = [s \in Servers |-> <<>>]
  /\ idx = [s \in Servers |-> 0]
  /\ ds = [s \in Servers |-> <<>>]
  /\ initErr = [s \in Servers |-> "none"]
  /\ startErr = [s \in Servers |-> "none"]
  /\ ret = [s \in Servers |-> NoRet]
  /\ bootOk = {}
  /\ sawOk = [s \in Servers |-> FALSE]
  /\ listener = [s \in Servers |-> 0]
  /\ Port = [s \in Servers |-> 0]
  /\ cmd = [s \in Servers |-> NoCmd]
  /\ rd = [s \in Servers |-> [st \in Streams |-> "none"]]
  /\ wr = [s \in Servers |-> [st \in Streams |-> "none"]]
  /\ relay = [s \in Servers |-> [st \in Streams |-> "none"]]
  /\ loopPc = [s \in Servers |-> "none"]
  /\ live = [s \in Servers |-> 0]
  /\ status = [s \in Servers |-> "none"]
  /\ pipe = [s \in Servers |-> [st \in Streams |-> 0]]

Init == InitWith(Plans, Env, InitialFS)

\* ------------------------------------------------------------ the callers
Returned(s, srv, err) ==
  /\ ret' = [ret EXCEPT ![s] = [srv |-> srv, err |-> err]]
  /\ pc' = [pc EXCEPT ![s] = "returned"]

\* Start, lines 32-39: MkdirAll of the state directory, then the Server.
Start_MkdirAll(s, dir) ==
  /\ pc[s] = "idle" /\ op[s] = "Start"
  /\ IF MkdirAllFails(dir)
     THEN /\ Returned(s, FALSE, "create state directory")
          /\ UNCHANGED <<dirs, stateDir, smbConfPath, sawOk>>
     ELSE /\ dirs' = MkdirAllDirs(dir)
          /\ stateDir' = [stateDir EXCEPT ![s] = dir]
          /\ smbConfPath' = [smbConfPath EXCEPT ![s] = Join(dir, "smb.conf")]
          /\ sawOk' = [sawOk EXCEPT ![s] = dir \in bootOk]
          /\ pc' = [pc EXCEPT ![s] = "init_stat"]
          /\ UNCHANGED ret
  /\ UNCHANGED <<env, files, op, calls, idx, ds, initErr, startErr, bootOk>>
  /\ UNCHANGED <<netVars, supVars>>

\* TestInitSMBConfIfNecessary, lines 12-18: a Server built by hand, and
\* initSMBConfIfNecessary called on it (here up to MaxInitCalls times).
Test_init(s, dir) ==
  /\ pc[s] = "idle" /\ op[s] = "init"
  /\ calls[s] < MaxInitCalls
  /\ calls[s] > 0 => dir = stateDir[s]
  /\ calls' = [calls EXCEPT ![s] = @ + 1]
  /\ stateDir' = [stateDir EXCEPT ![s] = dir]
  /\ smbConfPath' = [smbConfPath EXCEPT ![s] = Join(dir, "smb.conf")]
  /\ sawOk' = [sawOk EXCEPT ![s] = dir \in bootOk]
  /\ initErr' = [initErr EXCEPT ![s] = "none"]
  /\ pc' = [pc EXCEPT ![s] = "init_stat"]
  /\ UNCHANGED <<env, fsVars, op, idx, ds, startErr, ret, bootOk>>
  /\ UNCHANGED <<netVars, supVars>>

InitReturns(s, err) ==
  /\ initErr' = [initErr EXCEPT ![s] = err]
  /\ pc' = [pc EXCEPT ![s] = "init_ret"]

\* Variant: an existing file does not end the bootstrap.
init_StatIgnoresExisting(s) ==
  /\ pc[s] = "init_stat"
  /\ IF Stat(smbConfPath[s]) = "other"
     THEN InitReturns(s, "check exists")
     ELSE /\ pc' = [pc EXCEPT ![s] = "init_open"]
          /\ UNCHANGED initErr
  /\ UNCHANGED <<env, fsVars, op, calls, stateDir, smbConfPath, idx, ds, startErr, ret,
                 bootOk, sawOk>>
  /\ UNCHANGED <<netVars, supVars>>

\* Variant: every error of the check is taken for "does not exist".
init_StatIgnoresError(s) ==
  /\ pc[s] = "init_stat"
  /\ IF Stat(smbConfPath[s]) = "nil"
     THEN InitReturns(s, "nil")
     ELSE /\ pc' = [pc EXCEPT ![s] = "init_open"]
          /\ UNCHANGED initErr
  /\ UNCHANGED <<env, fsVars, op, calls, stateDir, smbConfPath, idx, ds, startErr, ret,
                 bootOk, sawOk>>
  /\ UNCHANGED <<netVars, supVars>>

\* initSMBConfIfNecessary, lines 54-62: the existence check.
init_Stat(s) ==
  /\ pc[s] = "init_stat"
  /\ CASE Stat(smbConfPath[s]) = "nil" -> InitReturns(s, "nil")
       [] Stat(smbConfPath[s]) = "other" -> InitReturns(s, "check exists")
       [] OTHER -> /\ pc' = [pc EXCEPT ![s] = "init_open"]
                   /\ UNCHANGED initErr
  /\ UNCHANGED <<env, fsVars, op, calls, stateDir, smbConfPath, idx, ds, startErr, ret,
                 bootOk, sawOk>>
  /\ UNCHANGED <<netVars, supVars>>

\* Lines 65-76: the file is created (empty) before anything else; the
\* constant template always parses; ds is a fresh descriptor list.
init_OpenFile(s) ==
  /\ pc[s] = "init_open"
  /\ IF OpenFileFails(smbConfPath[s])
     THEN /\ InitReturns(s, "create conf")
          /\ UNCHANGED <<files, idx, ds>>
     ELSE /\ files' = OpenFileFiles(smbConfPath[s])
          /\ ds' = [ds EXCEPT ![s] = directorySettings]
          /\ idx' = [idx EXCEPT ![s] = 1]
          /\ pc' = [pc EXCEPT ![s] = "init_mkdir"]
          /\ UNCHANGED initErr
  /\ UNCHANGED <<env, dirs, op, calls, stateDir, smbConfPath, startErr, ret, bootOk, sawOk>>
  /\ UNCHANGED <<netVars, supVars>>

\* Variant: the range loop records the paths but makes no directory.
init_MkdirAllMakesNothing(s) ==
  /\ pc[s] = "init_mkdir"
  /\ LET i == idx[s]
         abs == Join(stateDir[s], ds[s][i].path)
     IN /\ ds' = [ds EXCEPT ![s][i].AbsolutePath = abs]
        /\ idx' = [idx EXCEPT ![s] = i + 1]
        /\ pc' = [pc EXCEPT ![s] = IF i = Len(ds[s]) THEN "init_exec" ELSE "init_mkdir"]
  /\ UNCHANGED <<env, fsVars, op, calls, stateDir, smbConfPath, initErr, startErr, ret,
                 bootOk, sawOk>>
  /\ UNCHANGED <<netVars, supVars>>

\* Variant: d is a copy of the element, so ds never learns AbsolutePath.
init_MkdirAllOnCopy(s) ==
  /\ pc[s] = "init_mkdir"
  /\ LET i == idx[s]
         abs == Join(stateDir[s], ds[s][i].path)
     IN IF MkdirAllFails(abs)
        THEN /\ InitReturns(s, "create dir")
             /\ UNCHANGED <<dirs, idx>>
        ELSE /\ dirs' = MkdirAllDirs(abs)
             /\ idx' = [idx EXCEPT ![s] = i + 1]
             /\ pc' = [pc EXCEPT ![s] = IF i = Len(ds[s]) THEN "init_exec" ELSE "init_mkdir"]
             /\ UNCHANGED initErr
  /\ UNCHANGED <<env, files, op, calls, stateDir, smbConfPath, ds, startErr, ret, bootOk,
                 sawOk>>
  /\ UNCHANGED <<netVars, supVars>>

\* Lines 77-83: one iteration of the range loop.  d is a pointer into ds,
\* so the AbsolutePath assigned here is the one the template reads.
init_MkdirAll(s) ==
  /\ pc[s] = "init_mkdir"
  /\ LET i == idx[s]
         abs == Join(stateDir[s], ds[s][i].path)
     IN /\ ds' = [ds EXCEPT ![s][i].AbsolutePath = abs]
        /\ IF MkdirAllFails(abs)
           THEN /\ InitReturns(s, "create dir")
                /\ UNCHANGED <<dirs, idx>>
           ELSE /\ dirs' = MkdirAllDirs(abs)
                /\ idx' = [idx EXCEPT ![s] = i + 1]
                /\ pc' = [pc EXCEPT ![s] = IF i = Len(ds[s]) THEN "init_exec" ELSE "init_mkdir"]
                /\ UNCHANGED initErr
  /\ UNCHANGED <<env, files, op, calls, stateDir, smbConfPath, startErr, ret, bootOk, sawOk>>
  /\ UNCHANGED <<netVars, supVars>>

\* Lines 85-89: tmpl.Execute(file, ds).  A failing write leaves the lines
\* written before it.
init_Execute(s) ==
  /\ pc[s] = "init_exec"
  /\ LET p == smbConfPath[s]
         text == smbConfTemplate(ds[s])
     IN IF env.writeFault
        THEN /\ \E k \in WritePrefixes(text) :
                  files' = [files EXCEPT ![p] = Overwrite(@, SubSeq(text, 1, k))]
             /\ InitReturns(s, "execute")
        ELSE /\ files' = [files EXCEPT ![p] = Overwrite(@, text)]
             /\ InitReturns(s, "nil")
  /\ UNCHANGED <<env, dirs, op, calls, stateDir, smbConfPath, idx, ds, startErr, ret,
                 bootOk, sawOk>>
  /\ UNCHANGED <<netVars, supVars>>

NoteBoot(s) ==
  bootOk' = IF initErr[s] = "nil" THEN bootOk \cup {stateDir[s]} ELSE bootOk

\* The test's call returns.
Test_initReturn(s) ==
  /\ pc[s] = "init_ret" /\ op[s] = "init"
  /\ NoteBoot(s)
  /\ pc' = [pc EXCEPT ![s] = "idle"]
  /\ UNCHANGED <<env, fsVars, op, calls, stateDir, smbConfPath, idx, ds, initErr, startErr,
                 ret, sawOk>>
  /\ UNCHANGED <<netVars, supVars>>

\* Variant: the bootstrap's error is dropped.
Start_initIgnoresErr(s) ==
  /\ pc[s] = "init_ret" /\ op[s] = "Start"
  /\ NoteBoot(s)
  /\ pc' = [pc EXCEPT ![s] = "start_listen"]
  /\ UNCHANGED <<env, fsVars, op, calls, stateDir, smbConfPath, idx, ds, initErr, startErr,
                 ret, sawOk>>
  /\ UNCHANGED <<netVars, supVars>>

\* Start, lines 41-45: the bootstrap's error ends Start.
Start_init(s) ==
  /\ pc[s] = "init_ret" /\ op[s] = "Start"
  /\ NoteBoot(s)
  /\ IF initErr[s] # "nil"
     THEN Returned(s, FALSE, "init smb.conf")
     ELSE /\ pc' = [pc EXCEPT ![s] = "start_listen"]
          /\ UNCHANGED ret
  /\ UNCHANGED <<env, fsVars, op, calls, stateDir, smbConfPath, idx, ds, initErr, startErr,
                 sawOk>>
  /\ UNCHANGED <<netVars, supVars>>

StartReturns(s, err) ==
  /\ startErr' = [startErr EXCEPT ![s] = err]
  /\ Returned(s, FALSE, "start")

\* The ports in use: those an open listener holds, and those of the
\* running smbd processes (taken as bound as soon as launched).
BoundPorts ==
  {listener[t] : t \in Servers} \cup {Port[t] : t \in {u \in Servers : live[u] > 0}}

\* start, lines 94-97: net.Listen on port 0; the OS gives a port that is
\* not in use, or the listen fails.
start_Listen(s) ==
  /\ pc[s] = "start_listen"
  /\ \/ /\ StartReturns(s, "listen")
        /\ UNCHANGED listener
     \/ /\ \E p \in Ports \ BoundPorts :
             listener' = [listener EXCEPT ![s] = p]
        /\ pc' = [pc EXCEPT ![s] = "start_close"]
        /\ UNCHANGED <<startErr, ret>>
  /\ UNCHANGED <<env, fsVars, op, calls, stateDir, smbConfPath, idx, ds, initErr, bootOk,
                 sawOk, Port>>
  /\ UNCHANGED supVars

\* Lines 98-99: the port is read back and the listener released.
start_Close(s) ==
  /\ pc[s] = "start_close"
  /\ Port' = [Port EXCEPT ![s] = listener[s]]
  /\ listener' = [listener EXCEPT ![s] = 0]
  /\ pc' = [pc EXCEPT ![s] = "start_pipes"]
  /\ UNCHANGED <<env, fsVars, op, calls, stateDir, smbConfPath, idx, ds, initErr, startErr,
                 ret, bootOk, sawOk>>
  /\ UNCHANGED supVars

\* exec.Command, lines 102-109: no process yet, no exit status collected;
\* the arguments are formatted from s.smbConfPath and s.Port here, once.
Command(s) ==
  [Process |-> "nil", ProcessState |-> "nil", configfile |-> smbConfPath[s], port |-> Port[s]]

\* Lines 102-119: the one exec.Cmd of this Server, and its two pipes.
start_Pipes(s) ==
  /\ pc[s] = "start_pipes"
  /\ cmd' = [cmd EXCEPT ![s] = Command(s)]
  /\ \/ /\ StartReturns(s, "stdout pipe")
        /\ UNCHANGED <<rd, wr>>
     \/ /\ StartReturns(s, "stderr pipe")
        /\ rd' = [rd EXCEPT ![s]["stdout"] = "open"]
        /\ wr' = [wr EXCEPT ![s]["stdout"] = "open"]
     \/ /\ rd' = [rd EXCEPT ![s] = [st \in Streams |-> "open"]]
        /\ wr' = [wr EXCEPT ![s] = [st \in Streams |-> "open"]]
        /\ pc' = [pc EXCEPT ![s] = "go_stdout"]
        /\ UNCHANGED <<startErr, ret>>
  /\ UNCHANGED <<env, fsVars, op, calls, stateDir, smbConfPath, idx, ds, initErr, bootOk,
                 sawOk>>
  /\ UNCHANGED <<netVars, relay, loopPc, live, status, pipe>>

\* Lines 120-127: the two relay goroutines are spawned.
start_GoRelay(s, st) ==
  /\ pc[s] = (IF st = "stdout" THEN "go_stdout" ELSE "go_stderr")
  /\ relay' = [relay EXCEPT ![s][st] = "copy"]
  /\ pc' = [pc EXCEPT ![s] = IF st = "stdout" THEN "go_stderr" ELSE "go_loop"]
  /\ UNCHANGED <<env, fsVars, op, calls, stateDir, smbConfPath, idx, ds, initErr, startErr,
                 ret, bootOk, sawOk>>
  /\ UNCHANGED <<netVars, cmd, rd, wr, loopPc, live, status, pipe>>

\* Variant: start launches smbd itself before it spawns the loop, and
\* returns the launch's error.
start_GoLoopLaunchFirst(s) ==
  /\ pc[s] = "go_loop"
  /\ wr' = [wr EXCEPT ![s] = [st \in Streams |-> "closed"]]
  /\ \/ /\ rd' = [rd EXCEPT ![s] = [st \in Streams |-> "closed"]]
        /\ StartReturns(s, "cmd start")
        /\ UNCHANGED <<cmd, loopPc, live>>
     \/ /\ cmd' = [cmd EXCEPT ![s].Process = "started"]
        /\ live' = [live EXCEPT ![s] = @ + 1]
        /\ loopPc' = [loopPc EXCEPT ![s] = "wait"]
        /\ pc' = [pc EXCEPT ![s] = "start_ret"]
        /\ UNCHANGED <<rd, startErr, ret>>
  /\ UNCHANGED <<env, fsVars, op, calls, stateDir, smbConfPath, idx, ds, initErr, bootOk,
                 sawOk>>
  /\ UNCHANGED <<netVars, relay, status, pipe>>

\* Lines 130-139: the supervisor goroutine is spawned.
start_GoLoop(s) ==
  /\ pc[s] = "go_loop"
  /\ loopPc' = [loopPc EXCEPT ![s] = "run"]
  /\ pc' = [pc EXCEPT ![s] = "start_ret"]
  /\ UNCHANGED <<env, fsVars, op, calls, stateDir, smbConfPath, idx, ds, initErr, startErr,
                 ret, bootOk, sawOk>>
  /\ UNCHANGED <<netVars, cmd, rd, wr, relay, live, status, pipe>>

\* Variant: Start returns only once smbd has exited.
Start_ReturnAfterExit(s) ==
  /\ pc[s] = "start_ret"
  /\ cmd[s].Process = "started" /\ live[s] = 0
  /\ startErr' = [startErr EXCEPT ![s] = "nil"]
  /\ Returned(s, TRUE, "nil")
  /\ UNCHANGED <<env, fsVars, op, calls, stateDir, smbConfPath, idx, ds, initErr, bootOk,
                 sawOk>>
  /\ UNCHANGED <<netVars, supVars>>

\* Lines 141 and 45-50: start returns nil and Start returns s.
Start_Return(s) ==
  /\ pc[s] = "start_ret"
  /\ startErr' = [startErr EXCEPT ![s] = "nil"]
  /\ Returned(s, TRUE, "nil")
  /\ UNCHANGED <<env, fsVars, op, calls, stateDir, smbConfPath, idx, ds, initErr, bootOk,
                 sawOk>>
  /\ UNCHANGED <<netVars, supVars>>

\* ------------------------------------------------- the supervisor goroutine
\* Variant: each turn of the loop starts a fresh command and does not wait
\* for it.
loop_RunNoWait(s) ==
  /\ loopPc[s] = "run"
  /\ live[s] < 2
  /\ cmd' = [cmd EXCEPT ![s].Process = "started"]
  /\ live' = [live EXCEPT ![s] = @ + 1]
  /\ wr' = [wr EXCEPT ![s] = [st \in Streams |-> "closed"]]
  /\ UNCHANGED <<env, fsVars, callVars, netVars, rd, relay, loopPc, status, pipe>>

\* s.cmd.Run() is Start then Wait on the Server's one exec.Cmd, made once
\* at line 102 outside the loop.  exec.Cmd.Start refuses a Cmd whose
\* Process is already set ("exec: already started"); a failed launch
\* closes both ends of the pipes; a launch closes the parent's write ends.
loop_Run(s) ==
  /\ loopPc[s] = "run"
  /\ IF cmd[s].Process # "nil"
     THEN /\ loopPc' = [loopPc EXCEPT ![s] = "sleep"]
          /\ UNCHANGED <<cmd, rd, wr, live>>
     ELSE \/ /\ rd' = [rd EXCEPT ![s] = [st \in Streams |-> "closed"]]
             /\ wr' = [wr EXCEPT ![s] = [st \in Streams |-> "closed"]]
             /\ loopPc' = [loopPc EXCEPT ![s] = "sleep"]
             /\ UNCHANGED <<cmd, live>>
          \/ /\ cmd' = [cmd EXCEPT ![s].Process = "started"]
             /\ live' = [live EXCEPT ![s] = @ + 1]
             /\ wr' = [wr EXCEPT ![s] = [st \in Streams |-> "closed"]]
             /\ loopPc' = [loopPc EXCEPT ![s] = "wait"]
             /\ UNCHANGED rd
  /\ UNCHANGED <<env, fsVars, callVars, netVars, relay, status, pipe>>

\* Variant: no exit is followed by the sleep.
loop_WaitNoBackoff(s) ==
  /\ loopPc[s] = "wait"
  /\ status[s] # "none"
  /\ rd' = [rd EXCEPT ![s] = [st \in Streams |-> "closed"]]
  /\ loopPc' = [loopPc EXCEPT ![s] = "run"]
  /\ cmd' = [cmd EXCEPT ![s].ProcessState = status[s]]
  /\ status' = [status EXCEPT ![s] = "none"]
  /\ UNCHANGED <<env, fsVars, callVars, netVars, wr, relay, live, pipe>>

\* The Wait half of s.cmd.Run(), lines 133-137: it returns once the
\* process has exited, closes the read ends of the pipes, and reports a
\* non-zero status as an error.  Only an error is followed by the sleep.
loop_Wait(s) ==
  /\ loopPc[s] = "wait"
  /\ status[s] # "none"
  /\ rd' = [rd EXCEPT ![s] = [st \in Streams |-> "closed"]]
  /\ loopPc' = [loopPc EXCEPT ![s] = IF status[s] = "exit0" THEN "run" ELSE "sleep"]
  /\ cmd' = [cmd EXCEPT ![s].ProcessState = status[s]]
  /\ status' = [status EXCEPT ![s] = "none"]
  /\ UNCHANGED <<env, fsVars, callVars, netVars, wr, relay, live, pipe>>

\* Variant: the loop gives up after a failed run.
loop_SleepGivesUp(s) ==
  /\ loopPc[s] = "sleep"
  /\ loopPc' = [loopPc EXCEPT ![s] = "done"]
  /\ UNCHANGED <<env, fsVars, callVars, netVars, cmd, rd, wr, relay, live, status, pipe>>

\* Variant: after the backoff the loop takes another port for the Server.
loop_SleepTakesPort(s) ==
  /\ loopPc[s] = "sleep"
  /\ loopPc' = [loopPc EXCEPT ![s] = "run"]
  /\ \E p \in Ports \ {Port[s]} : Port' = [Port EXCEPT ![s] = p]
  /\ UNCHANGED <<env, fsVars, callVars, listener, cmd, rd, wr, relay, live, status, pipe>>

\* Line 136: time.Sleep(1 * time.Second) ends.
loop_Sleep(s) ==
  /\ loopPc[s] = "sleep"
  /\ loopPc' = [loopPc EXCEPT ![s] = "run"]
  /\ UNCHANGED <<env, fsVars, callVars, netVars, cmd, rd, wr, relay, live, status, pipe>>

\* ------------------------------------------------------------------ smbd
\* A running smbd exits, with status zero or not.
smbd_Exit(s, st) ==
  /\ live[s] > 0
  /\ live' = [live EXCEPT ![s] = @ - 1]
  /\ status' = [status EXCEPT ![s] = st]
  /\ UNCHANGED <<env, fsVars, callVars, netVars, cmd, rd, wr, relay, loopPc, pipe>>

\* A running smbd writes a byte to its stdout or stderr: into the pipe,
\* as long as the pipe has a reader and room (a write to a pipe whose
\* read end is closed fails and leaves nothing to copy).
smbd_Write(s, st) ==
  /\ live[s] > 0
  /\ rd[s][st] = "open"
  /\ pipe[s][st] < MaxPipe
  /\ pipe' = [pipe EXCEPT ![s][st] = @ + 1]
  /\ UNCHANGED <<env, fsVars, callVars, netVars, cmd, rd, wr, relay, loopPc, live, status>>

\* ------------------------------------------------------ the relay goroutines
\* Lines 121 and 125: a Read of io.Copy on the open read end takes the
\* bytes the pipe holds, and they are written to os.Stdout / os.Stderr.
relay_Read(s, st) ==
  /\ relay[s][st] = "copy"
  /\ rd[s][st] = "open"
  /\ pipe[s][st] > 0
  /\ pipe' = [pipe EXCEPT ![s][st] = 0]
  /\ UNCHANGED <<env, fsVars, callVars, netVars, cmd, rd, wr, relay, loopPc, live, status>>

\* Lines 120-127: io.Copy returns when the read end is closed under it
\* (the Read fails, whatever the pipe still holds), or at end of file
\* (the pipe is empty and every write end is closed: the parent's by the
\* launch, the child's by its exit); then the goroutine closes the pipe
\* and ends.
relay_Copy(s, st) ==
  /\ relay[s][st] = "copy"
  /\ \/ rd[s][st] = "closed"
     \/ (wr[s][st] = "closed" /\ live[s] = 0 /\ pipe[s][st] = 0)
  /\ rd' = [rd EXCEPT ![s][st] = "closed"]
  /\ relay' = [relay EXCEPT ![s][st] = "done"]
  /\ UNCHANGED <<env, fsVars, callVars, netVars, cmd, wr, loopPc, live, status, pipe>>

\* ------------------------------------------------------------ specification
Next ==
  \E s \in Servers :
    \/ \E dir \in StateDirs : Start_MkdirAll(s, dir)
    \/ \E dir \in StateDirs : Test_init(s, dir)
    \/ init_Stat(s)
    \/ init_OpenFile(s)
    \/ init_MkdirAll(s)
    \/ init_Execute(s)
    \/ Test_initReturn(s)
    \/ Start_init(s)
    \/ start_Listen(s)
    \/ start_Close(s)
    \/ start_Pipes(s)
    \/ \E st \in Streams : start_GoRelay(s, st)
    \/ start_GoLoop(s)
    \/ Start_Return(s)
    \/ loop_Run(s)
    \/ loop_Wait(s)
    \/ loop_Sleep(s)
    \/ \E st \in {"exit0", "exit1"} : smbd_Exit(s, st)
    \/ \E st \in Streams : relay_Copy(s, st)

\* The callers' and the supervisor's steps, with an smbd that writes
\* nothing to its stdout and stderr.
Spec == Init /\ [][Next]_vars

\* The Go scheduler runs a goroutine that can run, and a sleep ends:
\* the supervisor loop takes its steps.  Nothing makes smbd exit.
Loop(s) == loop_Run(s) \/ loop_Wait(s) \/ loop_Sleep(s)

Fairness ==
  \A s \in Servers :
    WF_vars(Loop(s))

\* The supervisor's liveness is checked on one Start beside a direct
\* bootstrap caller, from the fault-free environments.
FairInit ==
  InitWith({p \in Plans : p[1] = "Start"},
           {[statFault |-> FALSE, createFault |-> FALSE, writeFault |-> FALSE]},
           {fs \in InitialFS : fs.f = <<>>})

FairSpec == FairInit /\ [][Next]_vars /\ Fairness

\* Two concurrent callers of Start, on state directories that may be the
\* same, from a filesystem without files and an environment without faults.
StartNext ==
  \E s \in Servers :
    \/ \E dir \in StateDirs : Start_MkdirAll(s, dir)
    \/ init_Stat(s)
    \/ init_OpenFile(s)
    \/ init_MkdirAll(s)
    \/ init_Execute(s)
    \/ Start_init(s)
    \/ start_Listen(s)
    \/ start_Close(s)
    \/ start_Pipes(s)
    \/ \E st \in Streams : start_GoRelay(s, st)
    \/ start_GoLoop(s)
    \/ Start_Return(s)
    \/ loop_Run(s)
    \/ loop_Wait(s)
    \/ loop_Sleep(s)
    \/ \E st \in {"exit0", "exit1"} : smbd_Exit(s, st)
    \/ \E st \in Streams : relay_Copy(s, st)

TwoStartsInit ==
  InitWith({[s \in Servers |-> "Start"]},
           {[statFault |-> FALSE, createFault |-> FALSE, writeFault |-> FALSE]},
           {fs \in InitialFS : fs.f = <<>>})

TwoStartsSpec == TwoStartsInit /\ [][StartNext]_vars

\* One caller of Start, in an environment without faults, and an smbd
\* that writes to its stdout and stderr, which the relays read.
OutputNext ==
  \/ StartNext
  \/ \E s \in Servers : \E st \in Streams : smbd_Write(s, st)
  \/ \E s \in Servers : \E st \in Streams : relay_Read(s, st)

OutputSpec == FairInit /\ [][OutputNext]_vars

TypeOK ==
  /\ env \in Env
  /\ \A s \in Servers :
       /\ pc[s] \in {"idle", "init_stat", "init_open", "init_mkdir", "init_exec", "init_ret",
                     "start_listen", "start_close", "start_pipes", "go_stdout", "go_stderr",
                     "go_loop", "start_ret", "returned"}
       /\ op[s] \in {"Start", "init"}
       /\ calls[s] \in 0..MaxInitCalls
       /\ loopPc[s] \in {"none", "run", "wait", "sleep"}
       /\ live[s] \in 0..1
       /\ status[s] \in {"none", "exit0", "exit1"}
       /\ Port[s] \in Ports \cup {0}
       /\ listener[s] \in Ports \cup {0}
       /\ cmd[s].Process \in {"nil", "started"}
       /\ cmd[s].ProcessState \in {"nil", "exit0", "exit1"}
       /\ cmd[s].port \in Ports \cup {0}
       /\ \A st \in Streams :
            /\ rd[s][st] \in {"none", "open", "closed"}
            /\ wr[s][st] \in {"none", "open", "closed"}
            /\ relay[s][st] \in {"none", "copy", "done"}
            /\ pipe[s][st] \in 0..MaxPipe

\* ------------------------------------------------------------ vocabulary
\* s.cmd has a process: a launch succeeded.
Launched(s) == cmd[s].Process = "started"

\* s.cmd.Run() has been called at least once: every call, launching or
\* failing, closes the parent's write ends.
Attempted(s) == wr[s]["stdout"] = "closed"

\* Every launch tried so far has failed.
LaunchFailed(s) == Attempted(s) /\ ~Launched(s)

\* The one smbd this Server launched has exited.
Exited(s) == Launched(s) /\ live[s] = 0

ReturnedOk(s) == pc[s] = "returned" /\ ret[s] = [srv |-> TRUE, err |-> "nil"]

ReturnedErr(s) == pc[s] = "returned" /\ ~ret[s].srv /\ ret[s].err \notin {"none", "nil"}

NoTasks(s) ==
  /\ loopPc[s] = "none"
  /\ \A st \in Streams : relay[s][st] = "none"
  /\ ~Attempted(s) /\ ~Launched(s) /\ live[s] = 0

InBootstrap(s) == pc[s] \in {"init_stat", "init_open", "init_mkdir", "init_exec"}

CallerSteps(s) == <<pc[s], idx[s]>> # <<pc'[s], idx'[s]>>

FsUnchanged == dirs' = dirs /\ files' = files

\* ------------------------------------------------------------------ claims
\* C1: after a successful Start, whenever smbd has exited (with any
\* status), the supervisor loop eventually runs a new instance of it.
C1_RestartsAfterExit ==
  \A s \in Servers : []((ReturnedOk(s) /\ Exited(s)) => <>(live[s] > 0))

\* C2 as stated: every exit, whatever its status, is followed by the
\* backoff before the next run attempt: the loop never goes from the end
\* of a run straight to the next s.cmd.Run().
C2_BackoffAfterEveryExit ==
  [][\A s \in Servers : loopPc[s] = "wait" => loopPc'[s] \in {"wait", "sleep"}]_vars

\* C2 as amended: a run that returns an error (a non-zero exit, a failed
\* launch, a refused one) is followed by the backoff before the next
\* attempt; a run that returns nil (exit status zero) is followed by the
\* next attempt at once; an attempt is only ever preceded by the spawn,
\* by the backoff, or by a clean exit.
C2_BackoffAfterError ==
  [][\A s \in Servers :
       loopPc'[s] # loopPc[s] =>
         /\ (loopPc[s] = "wait" /\ status[s] = "exit0") => loopPc'[s] = "run"
         /\ (loopPc[s] = "wait" /\ status[s] # "exit0") => loopPc'[s] = "sleep"
         /\ (loopPc[s] = "run" /\ live'[s] = live[s]) => loopPc'[s] = "sleep"
         /\ loopPc'[s] = "run" =>
              \/ loopPc[s] \in {"none", "sleep"}
              \/ (loopPc[s] = "wait" /\ status[s] = "exit0")]_vars

\* The loop is at its next s.cmd.Run() after a clean exit.
C2_Witness ==
  \E s \in Servers : cmd[s].ProcessState = "exit0" /\ loopPc[s] = "run"

\* C3 as stated: when the first launch of smbd failed, Start returns an
\* error and no Server.
C3_LaunchFailureReturned ==
  \A s \in Servers : (LaunchFailed(s) /\ pc[s] = "returned") => ReturnedErr(s)

\* C3 as amended: a failed launch is never returned by Start: the launch
\* is made by the supervisor goroutine, Start returns the Server with a
\* nil error whether or not it has failed, and the failure is followed by
\* the loop's backoff.
C3_LaunchFailureNotReturned ==
  \A s \in Servers :
    LaunchFailed(s) =>
      /\ pc[s] \in {"start_ret", "returned"}
      /\ pc[s] = "returned" => ReturnedOk(s)
      /\ loopPc[s] \in {"sleep", "run"}

C3_Witness ==
  \E s \in Servers : LaunchFailed(s) /\ ReturnedOk(s) /\ loopPc[s] = "sleep"

\* C4 as stated: when Start returns with success the port is assigned and
\* the first launch of smbd has already been issued.
C4_LaunchIssuedAtReturn ==
  \A s \in Servers : ReturnedOk(s) => (Port[s] # 0 /\ Attempted(s))

\* C4 as amended: when Start returns with success the port is assigned
\* and the three goroutines are spawned, the supervisor loop among them,
\* which makes the first launch, possibly after Start has returned; and
\* Start waits for nothing: its return is enabled whatever smbd and the
\* loop are doing.
C4_TasksSpawnedAtReturn ==
  \A s \in Servers :
    /\ ReturnedOk(s) =>
         /\ Port[s] \in Ports
         /\ loopPc[s] # "none"
         /\ \A st \in Streams : relay[s][st] # "none"
    /\ pc[s] = "start_ret" => ENABLED Start_Return(s)

\* Start has returned while smbd, launched, is still running.
C4_Witness ==
  \E s \in Servers : ReturnedOk(s) /\ live[s] = 1 /\ loopPc[s] = "wait"

\* C5: at most one smbd of a Server is running at any time.
C5_OneInstance ==
  \A s \in Servers : live[s] <= 1

\* smbd runs, launched by a later attempt of the loop than the first.
C5_Witness ==
  \E s \in Servers : live[s] = 1 /\ rd[s]["stdout"] = "closed" /\ loopPc[s] = "wait"

\* C6: the supervisor loop has no terminal state: after every exit,
\* failed launch or refused run it makes a further run attempt; and none
\* of this changes what Start returned.
C6_LoopNeverEnds ==
  /\ \A s \in Servers :
       /\ [](loopPc[s] = "sleep" => <>(loopPc[s] = "run"))
       /\ [](loopPc[s] = "run" => <>(loopPc[s] \in {"wait", "sleep"}))
       /\ []((loopPc[s] = "wait" /\ live[s] = 0) => <>(loopPc[s] \in {"run", "sleep"}))
  /\ [][\A s \in Servers :
          /\ loopPc[s] # "none" => loopPc'[s] \in {"run", "wait", "sleep"}
          /\ pc[s] = "returned" => (pc'[s] = "returned" /\ ret'[s] = ret[s])]_vars

\* The loop sleeps once more after smbd has exited and a run was refused.
C6_Witness ==
  \E s \in Servers : Exited(s) /\ status[s] = "none" /\ loopPc[s] = "sleep" /\ ReturnedOk(s)

\* C7: when the state directory cannot be created, the bootstrap fails or
\* the listen fails, Start returns an error and no Server, no smbd is
\* launched and no goroutine is spawned.
C7_EarlyFailureAborts ==
  \A s \in Servers :
    op[s] = "Start" =>
      /\ ( \/ ret[s].err = "create state directory"
           \/ (initErr[s] \notin {"none", "nil"} /\ pc[s] # "init_ret")
           \/ startErr[s] = "listen" )
         => (ReturnedErr(s) /\ NoTasks(s))
      /\ ReturnedErr(s) => NoTasks(s)

C7_Witness ==
  \E s \in Servers :
    /\ op[s] = "Start" /\ ReturnedErr(s) /\ NoTasks(s)
    /\ ret[s].err = "init smb.conf" /\ initErr[s] = "create dir"

\* C8: once a bootstrap call on a state directory has returned nil, a
\* later call on the same state directory returns nil, and none of its
\* steps creates a directory or writes a file: the configuration file
\* keeps the content it had.
C8_BootstrapIdempotent ==
  [][\A s \in Servers :
       (sawOk[s] /\ InBootstrap(s) /\ CallerSteps(s)) =>
         /\ FsUnchanged
         /\ pc'[s] = "init_ret" /\ initErr'[s] = "nil"]_vars

\* A second call has returned nil on a state directory whose first call
\* rendered the file.
C8_Witness ==
  \E s \in Servers :
    /\ sawOk[s] /\ pc[s] = "init_ret" /\ initErr[s] = "nil"
    /\ files[smbConfPath[s]] =
         smbConfTemplate([k \in 1..Len(directorySettings) |->
            [directorySettings[k] EXCEPT
               !.AbsolutePath = Join(stateDir[s], directorySettings[k].path)]])

\* C9: when a file exists at the configuration path (and the check finds
\* it), whatever its content, the bootstrap returns nil at once and
\* leaves the filesystem as it is.
C9_SkipOnExists ==
  [][\A s \in Servers :
       (pc[s] = "init_stat" /\ CallerSteps(s)
          /\ smbConfPath[s] \in DOMAIN files /\ Stat(smbConfPath[s]) # "other") =>
         /\ pc'[s] = "init_ret" /\ initErr'[s] = "nil"
         /\ FsUnchanged]_vars

\* The bootstrap has returned nil over an empty configuration file, with
\* no descriptor directory made.
C9_Witness ==
  \E s \in Servers :
    /\ pc[s] = "init_ret" /\ initErr[s] = "nil"
    /\ files[smbConfPath[s]] = <<>>
    /\ Join(stateDir[s], "log") \notin dirs

\* C10: when the check of the configuration path fails for another
\* reason than non-existence, the bootstrap returns that error and
\* creates nothing.
C10_StatErrorPropagates ==
  [][\A s \in Servers :
       (pc[s] = "init_stat" /\ CallerSteps(s) /\ Stat(smbConfPath[s]) = "other") =>
         /\ pc'[s] = "init_ret" /\ initErr'[s] = "check exists"
         /\ FsUnchanged]_vars

C10_Witness ==
  \E s \in Servers :
    /\ pc[s] = "init_ret" /\ initErr[s] = "check exists"
    /\ ~Exists(smbConfPath[s])
    /\ Join(stateDir[s], "log") \notin dirs

\* The call of s ends its bootstrap work with success: it found no
\* configuration file, and its Execute step returns nil.
BootstrapSucceeds(s) ==
  pc[s] = "init_exec" /\ pc'[s] = "init_ret" /\ initErr'[s] = "nil"

\* The path of the k-th descriptor under the state directory of s.
DescriptorPath(s, k) == Join(stateDir[s], directorySettings[k].path)

\* C11: when a bootstrap that found no configuration file returns nil,
\* then for every entry of directorySettings the state directory joined
\* with the entry's path exists and is a directory, not a file.
C11_DescriptorDirsExist ==
  [][\A s \in Servers :
       BootstrapSucceeds(s) =>
         \A k \in 1..Len(directorySettings) :
           /\ DescriptorPath(s, k) \in dirs'
           /\ DescriptorPath(s, k) \notin DOMAIN files']_vars

\* The one bootstrap of a Start has done the work and returned nil, and
\* the directory that two descriptors share is there.
C11_Witness ==
  \E s \in Servers :
    /\ op[s] = "Start" /\ pc[s] = "init_ret" /\ initErr[s] = "nil"
    /\ idx[s] = Len(directorySettings) + 1
    /\ Join(stateDir[s], "private") \in dirs
    /\ stateDir[s] \in dirs

\* C12: when a bootstrap that found no configuration file returns nil,
\* the file holds the fixed header and then exactly one line
\* "Setting = AbsolutePath" per entry of directorySettings, in the order
\* of the list, AbsolutePath being the state directory joined with the
\* entry's path, and never empty.
C12_OneLinePerDescriptor ==
  [][\A s \in Servers :
       BootstrapSucceeds(s) =>
         LET conf == files'[smbConfPath[s]]
             n == Len(smbConfHeader)
         IN /\ Len(conf) = n + Len(directorySettings)
            /\ SubSeq(conf, 1, n) = smbConfHeader
            /\ \A k \in 1..Len(directorySettings) :
                 /\ conf[n + k].key = directorySettings[k].Setting
                 /\ conf[n + k].val = DescriptorPath(s, k)
                 /\ conf[n + k].val # <<>>]_vars

\* A direct call has returned nil for state directory b and the file's
\* first descriptor line names the state directory itself.
C12_Witness ==
  \E s \in Servers :
    /\ op[s] = "init" /\ pc[s] = "init_ret" /\ initErr[s] = "nil"
    /\ ~sawOk[s] /\ calls[s] = 1 /\ stateDir[s] = <<"b">>
    /\ smbConfPath[s] \in DOMAIN files
    /\ Len(files[smbConfPath[s]]) = Len(smbConfHeader) + Len(directorySettings)
    /\ files[smbConfPath[s]][Len(smbConfHeader) + 1] =
         [key |-> "state directory", val |-> <<"b">>]

\* C13: s.Port is assigned once, from the port the OS gave the listener;
\* when Start has returned with success it is a real port and it is the
\* --port argument of s.cmd, so of every run attempt of the loop; no step
\* of the relays, of smbd or of the loop changes it.
C13_PortFixed ==
  [][\A s \in Servers :
       /\ Port'[s] # Port[s] =>
            /\ pc[s] = "start_close" /\ pc'[s] = "start_pipes"
            /\ listener[s] \in Ports /\ Port'[s] = listener[s]
       /\ ReturnedOk(s)' => (Port'[s] \in Ports /\ cmd'[s].port = Port'[s])
       /\ (loopPc[s] = "run" /\ loopPc'[s] # "run") =>
            (cmd[s].port = Port[s] /\ Port[s] \in Ports /\ Port'[s] = Port[s])
       /\ (loopPc[s] # "none" /\ pc'[s] = pc[s]) => Port'[s] = Port[s]]_vars

\* Start has returned its port; smbd has run with it and exited, and a
\* further run attempt with the same argument has been refused.
C13_Witness ==
  \E s \in Servers :
    /\ ReturnedOk(s) /\ Port[s] \in Ports /\ cmd[s].port = Port[s]
    /\ Exited(s) /\ cmd[s].ProcessState # "nil" /\ loopPc[s] = "sleep"
    /\ \A st \in Streams : relay[s][st] = "done"

\* C14: two concurrent Start calls that have both returned with success
\* never report the same Port at the same instant.
C14_PortsDistinct ==
  \A s, t \in Servers :
    (s # t /\ ReturnedOk(s) /\ ReturnedOk(t)) => Port[s] # Port[t]

\* C15: every byte smbd writes to its stdout or stderr is copied by the
\* relay: no relay stops, and no read end is closed, while the pipe still
\* holds a byte smbd wrote (such a byte can never be copied any more),
\* whatever the interleaving of the relays with the loop's Wait.
C15_RelayComplete ==
  \A s \in Servers : \A st \in Streams :
    (relay[s][st] = "done" \/ rd[s][st] = "closed") => pipe[s][st] = 0

\* C16: a bootstrap call that aborts because a descriptor directory
\* cannot be created or the template cannot be rendered leaves no file at
\* its configuration path (so that a later call finds none and does the
\* work again).
C16_FailureLeavesNoFile ==
  [][\A s \in Servers :
       (InBootstrap(s) /\ pc'[s] = "init_ret" /\ initErr'[s] \in {"create dir", "execute"}) =>
         smbConfPath[s] \notin DOMAIN files']_vars

\* C17: once Start has returned with success its three goroutines exist
\* and none of them ever ends; in the case the claim singles out, where
\* smbd was launched: the loop is running and both relays are still
\* copying, also after smbd has exited.
C17_TasksStayAlive ==
  \A s \in Servers :
    (ReturnedOk(s) /\ Launched(s)) =>
      /\ loopPc[s] \in {"run", "wait", "sleep"}
      /\ \A st \in Streams : relay[s][st] = "copy"

\* What a complete bootstrap of state directory dir leaves in smb.conf.
RenderedConf(dir) ==
  smbConfTemplate([k \in 1..Len(directorySettings) |->
     [directorySettings[k] EXCEPT !.AbsolutePath = Join(dir, directorySettings[k].path)]])

\* C18: with two Start calls (on state directories that may be the same),
\* smbd is launched only when the file at its --configfile path is
\* completely rendered and every descriptor directory exists: no Start
\* gets past its bootstrap on a file another call has created and not
\* yet written.
C18_LaunchOnlyWhenRendered ==
  [][\A s \in Servers :
       (~Launched(s) /\ Launched(s)') =>
         /\ cmd[s].configfile \in DOMAIN files
         /\ files[cmd[s].configfile] = RenderedConf(stateDir[s])
         /\ \A k \in 1..Len(directorySettings) : DescriptorPath(s, k) \in dirs]_vars
====
